---- MODULE Spec2Model ----
(***************************************************************************)
(* Music-Search-Bot: the resolution engine of src/src/music_search_bot.py. *)
(*                                                                         *)
(* Two specifications over one set of variables:                           *)
(*   Spec       one run of run_playlist: the track loop, the resolver      *)
(*              search_single_track, the three source adapters behind      *)
(*              _search_with_retries, the progress sink.                   *)
(*   SpecRetry  _search_with_retries of one bot called with an arbitrary   *)
(*              search function (any result, any exception).               *)
(*                                                                         *)
(* Times are integers in milliseconds; products the code computes in       *)
(* floating point are rounded down to a millisecond.                       *)
(***************************************************************************)
EXTENDS Integers, Sequences, FiniteSets, TLC

VARIABLES
    rows,         \* the input table: per row, "ok" (both fields non-blank) or "blank"
    cfgDelay,     \* run_playlist's delay parameter
    max_retries,  \* bot.max_retries
    ytAvailable,  \* youtube_music.is_available()
    delay,        \* bot.delay, the controller's shared base delay
    stats,        \* bot.stats
    pre,          \* bot.stats as it was when search_single_track was entered
    tracks,       \* tracks_data: the row index of every valid row, in order
    i,            \* the loop index of run_playlist (tracks finished so far)
    nvar,         \* len(search_variants) of the track in resolution
    v,            \* the variant in use, 1..nvar
    src,          \* the source adapter in use
    attempt,      \* the loop index of _search_with_retries
    trace,        \* the invocations and sleeps of the controller call in progress
    ret,          \* what the last controller call returned
    calls,        \* the adapter invocations made for the track in resolution
    vsleeps,      \* the inter-variant sleeps of the track in resolution
    result,       \* the SearchResult of the track in resolution
    results,      \* run_playlist's results list
    progress,     \* the invocations of the progress sink
    tsleeps,      \* the inter-track sleeps of the run
    returned,     \* what run_playlist returned
    ncalls,       \* controller calls made so far on this bot
    fn,           \* the call of a function checked on its own: arguments, result
    pc

vars == <<rows, cfgDelay, max_retries, ytAvailable, delay, stats, pre, tracks, i,
          nvar, v, src, attempt, trace, ret, calls, vsleeps, result, results,
          progress, tsleeps, returned, ncalls, fn, pc>>

(***************************************************************************)
(* Bounds of the model.                                                    *)
(***************************************************************************)
MaxRows == 2
RunMaxRetries == 2
CtlMaxRetries == 3
MaxCtlCalls == 2

(***************************************************************************)
(* Program constants.                                                      *)
(***************************************************************************)
MaxVariants == 3
LocalRetries == 2
DelayCapMs == 5000
BackoffCapMs == 10000
VideoIdLen == 11

\* fn when no function is being checked on its own
NoFn == [op |-> "none"]

Min(a, b) == IF a <= b THEN a ELSE b

RECURSIVE Pow2(_)
Pow2(n) == IF n = 0 THEN 1 ELSE 2 * Pow2(n - 1)

\* delays the driver accepts (0.1 <= delay <= 10), in ms
RunDelays == {1500, 6000}
CtlDelays == {100, 1500, 4000, 6000}
\* random.uniform(0.1, 0.5), in ms
RunJitters == {300}
CtlJitters == {100, 500}

(***************************************************************************)
(* URLs.  A watch URL is known by the length of its video identifier.      *)
(***************************************************************************)
NoUrl == [site |-> "", idlen |-> 0]
WatchUrl(n) == [site |-> "youtube", idlen |-> n]
FsUrl == [site |-> "4shared", idlen |-> 0]

\* re.match(r'https://www\.youtube\.com/watch\?v=.{11}', url): at least 11
\* characters after "v=".
is_valid_youtube_url(url) ==
    /\ url # NoUrl
    /\ url.site = "youtube"
    /\ url.idlen >= VideoIdLen

(***************************************************************************)
(* RunStats.                                                               *)
(***************************************************************************)
ZeroStats == [total_songs |-> 0, youtube_found |-> 0, fourshared_found |-> 0,
              not_found |-> 0, errors |-> 0]

NoStats == [total_songs |-> -1, youtube_found |-> -1, fourshared_found |-> -1,
            not_found |-> -1, errors |-> -1]

Terminal(s) == s.youtube_found + s.fourshared_found + s.not_found + s.errors

(***************************************************************************)
(* What one invocation of the wrapped search function does: it returns a   *)
(* URL or nothing, or raises requests.exceptions.HTTPError, or raises      *)
(* another Exception.  For an HTTPError, resp tells what e.response is:    *)
(* "none" (no response attached), "real" (a requests.Response, whose truth *)
(* value is its ok flag: false for every status >= 400) or "stub" (an      *)
(* object with Python's default truth value, such as a test double), and   *)
(* ra tells the Retry-After header: "absent", "int" (a number of seconds   *)
(* time.sleep accepts), "bad" (int() or time.sleep raises ValueError), or  *)
(* "huge" (an integer time.sleep rejects with OverflowError).              *)
(* pages is the number of page requests a scraper adapter issued inside    *)
(* the invocation (its local sleeps between them are not recorded).        *)
(***************************************************************************)
Outcome(kind, url, resp, status, ra, pages) ==
    [kind |-> kind, url |-> url, resp |-> resp, status |-> status, ra |-> ra,
     pages |-> pages]

Returns(url, pages) == Outcome("result", url, "none", 0, "absent", pages)
RaisesHttp(resp, status, ra) == Outcome("http", NoUrl, resp, status, ra, 0)
RaisesOther == Outcome("exc", NoUrl, "none", 0, "absent", 0)
NoOutcome == Outcome("", NoUrl, "none", 0, "absent", 0)

\* the Retry-After header of the model's rate-limited responses: 5 seconds
RetryAfterMs == 5 * 1000

\* any search function: the results and exceptions one invocation can end in
AnyOutcomes ==
    {Returns(u, 0) : u \in {NoUrl, WatchUrl(VideoIdLen)}}
    \cup {RaisesHttp("real", 429, "int"), RaisesHttp("real", 500, "absent"),
          RaisesHttp("none", 0, "absent"), RaisesHttp("stub", 500, "absent")}
    \cup {RaisesHttp("stub", 429, a) : a \in {"absent", "int", "bad", "huge"}}
    \cup {RaisesOther}

(***************************************************************************)
(* The source adapters.                                                    *)
(***************************************************************************)
\* YouTubeMusicSearcher.search: the URL is built from the videoId of the
\* first accepted candidate, whatever its length; no candidate, or an
\* exception of the client (swallowed), gives None.  n is that length, 0
\* for no candidate.
YtmIdLens == {0, 5, VideoIdLen}
YouTubeMusicSearcher_search(n) ==
    Returns(IF n = 0 THEN NoUrl ELSE WatchUrl(n), 0)

\* The retry loop shared by YouTubeScraper.search and FourSharedScraper.search:
\* outs[k] is what page attempt k does ("hit": _search_attempt returns a URL,
\* "miss": it returns None, "raise": it raises, which the loop swallows).
PageOutcomes == {"hit", "miss", "raise"}

\* mutant of ScraperLoop: one page attempt more than max_retries
RECURSIVE ScraperLoop_OneMore(_, _, _)
ScraperLoop_OneMore(outs, k, url) ==
    IF k >= LocalRetries + 1 THEN Returns(NoUrl, k)
    ELSE IF outs[Min(k + 1, LocalRetries)] = "hit" THEN Returns(url, k + 1)
    ELSE ScraperLoop_OneMore(outs, k + 1, url)

RECURSIVE ScraperLoop(_, _, _)
ScraperLoop(outs, k, url) ==
    IF k >= LocalRetries THEN Returns(NoUrl, k)
    ELSE IF outs[k + 1] = "hit" THEN Returns(url, k + 1)
    ELSE ScraperLoop(outs, k + 1, url)

\* _search_attempt builds the watch URL from an identifier _is_valid_video_id
\* accepted: exactly 11 characters.
YouTubeScraper_search(outs) == ScraperLoop(outs, 0, WatchUrl(VideoIdLen))

FourSharedScraper_search(outs) == ScraperLoop(outs, 0, FsUrl)

AdapterOutcomes(s) ==
    CASE s = "ytm" -> {YouTubeMusicSearcher_search(n) : n \in YtmIdLens}
      [] s = "yts" -> {YouTubeScraper_search(outs) :
                          outs \in [1..LocalRetries -> PageOutcomes]}
      [] s = "fs"  -> {FourSharedScraper_search(outs) :
                          outs \in [1..LocalRetries -> PageOutcomes]}

(***************************************************************************)
(* _search_with_retries: one iteration of its loop.                        *)
(***************************************************************************)
Sleep(kind, dur) == [ev |-> "sleep", kind |-> kind, dur |-> dur, out |-> NoOutcome]
Call(o) == [ev |-> "call", kind |-> o.kind, dur |-> 0, out |-> o]

\* bool(e.response)
Truthy(o) ==
    CASE o.resp = "none" -> FALSE
      [] o.resp = "real" -> o.status < 400
      [] o.resp = "stub" -> TRUE

\* the branch of line 547
IsRateLimit(o) == o.kind = "http" /\ Truthy(o) /\ o.status = 429

BackoffDelay(d, k, j) == Min(d * Pow2(k) + j, BackoffCapMs)
RateLimitDelay(d) == Min((d * 3) \div 2, DelayCapMs)
ErrorSleep(d, k) == d * (k + 1)
IsFinalAttempt(k) == ~(k < max_retries - 1)

\* mutant of NeedsBackoff: a backoff sleep before the first attempt too
NeedsBackoff_Always(k) == TRUE

\* mutant of HasNextAttempt: one iteration too many
HasNextAttempt_OneMore(k) == k + 1 <= max_retries

\* "if attempt > 0": a backoff sleep precedes every attempt but the first
NeedsBackoff(k) == k > 0

\* "for attempt in range(self.max_retries)": another iteration follows
HasNextAttempt(k) == k + 1 < max_retries

\* the sleeps of the except clauses
Handler(o, k, d) ==
    CASE o.kind = "result" -> <<>>
      [] IsRateLimit(o) ->
            IF o.ra = "int" THEN <<Sleep("retry_after", RetryAfterMs)>>
            ELSE IF o.ra = "huge" THEN <<>>
            ELSE <<Sleep("rate_limit", RateLimitDelay(d) * 2)>>
      [] o.kind = "http" -> <<>>
      [] o.kind = "exc" ->
            IF IsFinalAttempt(k) THEN <<>> ELSE <<Sleep("error", ErrorSleep(d, k))>>

\* time.sleep(wait_time) raising OverflowError inside the except clause
Escapes(o) == IsRateLimit(o) /\ o.ra = "huge"

SearchWithRetriesStep(o, j) ==
    LET before == IF NeedsBackoff(attempt)
                  THEN <<Sleep("backoff", BackoffDelay(delay, attempt, j))>>
                  ELSE <<>>
    IN  /\ trace' = trace \o before \o <<Call(o)>> \o Handler(o, attempt, delay)
        /\ delay' = IF IsRateLimit(o) THEN RateLimitDelay(delay) ELSE delay
        /\ IF o.kind = "result" /\ o.url # NoUrl
           THEN ret' = o.url /\ pc' = "returned" /\ attempt' = attempt
           ELSE IF Escapes(o)
           THEN ret' = NoUrl /\ pc' = "raised" /\ attempt' = attempt
           ELSE IF HasNextAttempt(attempt)
           THEN ret' = ret /\ pc' = "search" /\ attempt' = attempt + 1
           ELSE ret' = NoUrl /\ pc' = "returned" /\ attempt' = attempt

(***************************************************************************)
(* search_single_track and _search_youtube / _search_fourshared.           *)
(*                                                                         *)
(* The three adapters swallow every Exception themselves (lines 126, 184,  *)
(* 288), so inside a run the wrapped call only returns and, for a delay    *)
(* that is a number in the driver's range, no sleep raises; the except     *)
(* clause of search_single_track (lines 511-513) and pc = "raised" have no *)
(* behaviour of Spec leading to them and appear in no action of Next.      *)
(***************************************************************************)
Sources == <<"ytm", "yts", "fs">>

\* _search_youtube asks the catalog only if it is available
\* mutant of FirstSource: the catalog asked whether available or not
FirstSource_Unchecked == "ytm"

FirstSource == IF ytAvailable THEN "ytm" ELSE "yts"
NextSource(s) == IF s = "ytm" THEN "yts" ELSE "fs"

\* "if url and is_valid_youtube_url(url)" for the two YouTube sources,
\* "if fourshared_url" for the file host
Validated(s, url) ==
    IF s = "fs" THEN url # NoUrl
    ELSE url # NoUrl /\ is_valid_youtube_url(url)

\* mutants of Bump: an increment left out
Bump_NoTotal(s, counter) ==
    IF counter = "total_songs" THEN s ELSE [s EXCEPT ![counter] = @ + 1]
Bump_NoNotFound(s, counter) ==
    IF counter = "not_found" THEN s ELSE [s EXCEPT ![counter] = @ + 1]

Bump(s, counter) == [s EXCEPT ![counter] = @ + 1]

NewResult(t) ==
    [track |-> t, youtube_url |-> NoUrl, fourshared_url |-> NoUrl, status |-> "not_found"]

\* mutant of FoundResult: both URL fields written
FoundResult_Both(r, s, url) ==
    [r EXCEPT !.fourshared_url = url, !.youtube_url = url, !.status = "found"]

FoundResult(r, s, url) ==
    IF s = "fs"
    THEN [r EXCEPT !.fourshared_url = url, !.status = "found"]
    ELSE [r EXCEPT !.youtube_url = url, !.status = "found"]

\* mutant of FoundCounter: every hit counted as a YouTube hit
FoundCounter_AlwaysYoutube(s) == "youtube_found"

FoundCounter(s) == IF s = "fs" THEN "fourshared_found" ELSE "youtube_found"

\* mutant of ErrorResult: the status is left as it was
ErrorResult_Unchanged(r) == r

ErrorResult(r) == [r EXCEPT !.status = "error"]

VariantSleep(d) == d \div 2

\* mutant of IsLastVariant: the last variant is not recognised
IsLastVariant_Never(k, n) == FALSE

IsLastVariant(k, n) == k = n

\* lines 473-489: the result is prepared, total_songs counted, the variants
\* generated; n is their number.  No variant: an error at once.
BeginTrack ==
    /\ pc = "loop"
    /\ i < Len(tracks)
    /\ \E n \in 0..MaxVariants :
         /\ nvar' = n
         /\ pre' = stats
         /\ calls' = <<>>
         /\ vsleeps' = <<>>
         /\ trace' = <<>>
         /\ ret' = NoUrl
         /\ attempt' = 0
         /\ IF n = 0
            THEN /\ stats' = Bump(Bump(stats, "total_songs"), "errors")
                 /\ result' = ErrorResult(NewResult(tracks[i + 1]))
                 /\ v' = 0
                 /\ src' = "none"
                 /\ pc' = "resolved"
            ELSE /\ stats' = Bump(stats, "total_songs")
                 /\ result' = NewResult(tracks[i + 1])
                 /\ v' = 1
                 /\ src' = FirstSource
                 /\ pc' = "search"
    /\ UNCHANGED <<fn, rows, cfgDelay, max_retries, ytAvailable, delay, tracks, i,
                   results, progress, tsleeps, returned, ncalls>>

\* one iteration of _search_with_retries around the adapter in use
Attempt ==
    /\ pc = "search"
    /\ \E j \in RunJitters : \E o \in AdapterOutcomes(src) :
         /\ SearchWithRetriesStep(o, j)
         /\ calls' = Append(calls, [v |-> v, src |-> src, ok |-> Validated(src, o.url)])
    /\ UNCHANGED <<fn, rows, cfgDelay, max_retries, ytAvailable, stats, pre, tracks, i,
                   nvar, v, src, vsleeps, result, results, progress, tsleeps,
                   returned, ncalls>>

\* lines 493-497 and 500-504: a validated URL ends the resolution
Found ==
    /\ pc = "returned"
    /\ Validated(src, ret)
    /\ result' = FoundResult(result, src, ret)
    /\ stats' = Bump(stats, FoundCounter(src))
    /\ pc' = "resolved"
    /\ UNCHANGED <<fn, rows, cfgDelay, max_retries, ytAvailable, delay, pre, tracks, i,
                   nvar, v, src, attempt, trace, ret, calls, vsleeps, results,
                   progress, tsleeps, returned, ncalls>>

\* lines 523 and 499: the next source of the same variant
TryNextSource ==
    /\ pc = "returned"
    /\ ~Validated(src, ret)
    /\ src # "fs"
    /\ src' = NextSource(src)
    /\ attempt' = 0
    /\ trace' = <<>>
    /\ ret' = NoUrl
    /\ pc' = "search"
    /\ UNCHANGED <<fn, rows, cfgDelay, max_retries, ytAvailable, delay, stats, pre, tracks,
                   i, nvar, v, calls, vsleeps, result, results, progress, tsleeps,
                   returned, ncalls>>

\* lines 506-507 and 491: the inter-variant sleep, then the next variant
TryNextVariant ==
    /\ pc = "returned"
    /\ ~Validated(src, ret)
    /\ src = "fs"
    /\ ~IsLastVariant(v, nvar)
    /\ vsleeps' = Append(vsleeps, VariantSleep(delay))
    /\ v' = v + 1
    /\ src' = FirstSource
    /\ attempt' = 0
    /\ trace' = <<>>
    /\ ret' = NoUrl
    /\ pc' = "search"
    /\ UNCHANGED <<fn, rows, cfgDelay, max_retries, ytAvailable, delay, stats, pre, tracks,
                   i, nvar, calls, result, results, progress, tsleeps, returned, ncalls>>

\* line 509: every variant exhausted
NotFound ==
    /\ pc = "returned"
    /\ ~Validated(src, ret)
    /\ src = "fs"
    /\ IsLastVariant(v, nvar)
    /\ stats' = Bump(stats, "not_found")
    /\ pc' = "resolved"
    /\ UNCHANGED <<fn, rows, cfgDelay, max_retries, ytAvailable, delay, pre, tracks, i,
                   nvar, v, src, attempt, trace, ret, calls, vsleeps, result, results,
                   progress, tsleeps, returned, ncalls>>

(***************************************************************************)
(* run_playlist.                                                           *)
(***************************************************************************)
RowKinds == {"ok", "blank"}

RECURSIVE SeqsUpTo(_, _)
SeqsUpTo(S, n) ==
    IF n = 0 THEN {<<>>}
    ELSE LET shorter == SeqsUpTo(S, n - 1)
         IN shorter \cup {Append(q, x) : q \in {r \in shorter : Len(r) = n - 1}, x \in S}

\* lines 582-592: the rows with both fields non-blank, by index (the model
\* counts rows from 1, pandas from 0)
\* mutant of TracksData: the rows are not filtered
RECURSIVE TracksData_All(_, _)
TracksData_All(rs, k) ==
    IF k > Len(rs) THEN <<>> ELSE <<k>> \o TracksData_All(rs, k + 1)

RECURSIVE TracksData(_, _)
TracksData(rs, k) ==
    IF k > Len(rs) THEN <<>>
    ELSE IF rs[k] = "ok" THEN <<k>> \o TracksData(rs, k + 1)
    ELSE TracksData(rs, k + 1)

\* mutant of Completed: the loop index itself
Completed_Index(k) == k

Completed(k) == k + 1

Entry(r, idx) ==
    [index |-> idx, track |-> r.track, youtube_url |-> r.youtube_url,
     fourshared_url |-> r.fourshared_url, status |-> r.status]

NoResult == NewResult(0)

Init ==
    /\ rows \in SeqsUpTo(RowKinds, MaxRows)
    /\ cfgDelay \in RunDelays
    /\ max_retries \in 1..RunMaxRetries
    /\ ytAvailable = FALSE
    /\ delay = cfgDelay
    /\ stats = ZeroStats
    /\ pre = ZeroStats
    /\ tracks = <<>>
    /\ i = 0
    /\ nvar = 0
    /\ v = 0
    /\ src = "none"
    /\ attempt = 0
    /\ trace = <<>>
    /\ ret = NoUrl
    /\ calls = <<>>
    /\ vsleeps = <<>>
    /\ result = NoResult
    /\ results = <<>>
    /\ progress = <<>>
    /\ tsleeps = <<>>
    /\ returned = NoStats
    /\ ncalls = 0
    /\ fn = NoFn
    /\ pc = "init"

\* lines 594-595: no valid track, the run fails before a bot exists
StartFails ==
    /\ pc = "init"
    /\ TracksData(rows, 1) = <<>>
    /\ pc' = "failed"
    /\ UNCHANGED <<fn, rows, cfgDelay, max_retries, ytAvailable, delay, stats, pre, tracks,
                   i, nvar, v, src, attempt, trace, ret, calls, vsleeps, result,
                   results, progress, tsleeps, returned, ncalls>>

\* lines 598-602: the bot is constructed (the catalog client initialises or
\* not), results is empty
StartRun ==
    /\ pc = "init"
    /\ TracksData(rows, 1) # <<>>
    /\ tracks' = TracksData(rows, 1)
    /\ ytAvailable' \in BOOLEAN
    /\ delay' = cfgDelay
    /\ stats' = ZeroStats
    /\ i' = 0
    /\ results' = <<>>
    /\ pc' = "loop"
    /\ UNCHANGED <<fn, rows, cfgDelay, max_retries, pre, nvar, v, src, attempt, trace, ret,
                   calls, vsleeps, result, progress, tsleeps, returned, ncalls>>

\* lines 607-616: the result is appended, the sink invoked, the inter-track
\* sleep taken
RecordTrack ==
    /\ pc = "resolved"
    /\ results' = Append(results, Entry(result, tracks[i + 1]))
    /\ progress' = Append(progress, [completed |-> Completed(i), total |-> Len(tracks),
                                     stats |-> stats, label |-> tracks[i + 1]])
    /\ tsleeps' = IF i < Len(tracks) - 1
                  THEN Append(tsleeps, [after |-> i + 1, dur |-> cfgDelay])
                  ELSE tsleeps
    /\ i' = i + 1
    /\ pc' = "loop"
    /\ UNCHANGED <<fn, rows, cfgDelay, max_retries, ytAvailable, delay, stats, pre, tracks,
                   nvar, v, src, attempt, trace, ret, calls, vsleeps, result, returned,
                   ncalls>>

\* lines 607-612 and 618-626: the same, but the sink raises: the except
\* clause appends an error entry for the track and the sleep is skipped
RecordTrackSinkRaises ==
    /\ pc = "resolved"
    /\ results' = results \o <<Entry(result, tracks[i + 1]),
                               Entry(ErrorResult(NewResult(tracks[i + 1])), tracks[i + 1])>>
    /\ progress' = Append(progress, [completed |-> Completed(i), total |-> Len(tracks),
                                     stats |-> stats, label |-> tracks[i + 1]])
    /\ i' = i + 1
    /\ pc' = "loop"
    /\ UNCHANGED <<fn, rows, cfgDelay, max_retries, ytAvailable, delay, stats, pre, tracks,
                   nvar, v, src, attempt, trace, ret, calls, vsleeps, result, tsleeps,
                   returned, ncalls>>

\* lines 628-643: the loop is over, the statistics are returned
Finish ==
    /\ pc = "loop"
    /\ i = Len(tracks)
    /\ returned' = stats
    /\ pc' = "done"
    /\ UNCHANGED <<fn, rows, cfgDelay, max_retries, ytAvailable, delay, stats, pre, tracks,
                   i, nvar, v, src, attempt, trace, ret, calls, vsleeps, result,
                   results, progress, tsleeps, ncalls>>

Next ==
    \/ StartFails
    \/ StartRun
    \/ BeginTrack
    \/ Attempt
    \/ Found
    \/ TryNextSource
    \/ TryNextVariant
    \/ NotFound
    \/ RecordTrack
    \/ RecordTrackSinkRaises
    \/ Finish

Spec == Init /\ [][Next]_vars

(***************************************************************************)
(* The controller alone: _search_with_retries(search_func) on one bot, for *)
(* any search function, called MaxCtlCalls times in a row.                 *)
(***************************************************************************)
InitRetry ==
    /\ rows = <<>>
    /\ cfgDelay \in CtlDelays
    /\ max_retries \in 1..CtlMaxRetries
    /\ ytAvailable = FALSE
    /\ delay = cfgDelay
    /\ stats = ZeroStats
    /\ pre = ZeroStats
    /\ tracks = <<>>
    /\ i = 0
    /\ nvar = 0
    /\ v = 0
    /\ src = "none"
    /\ attempt = 0
    /\ trace = <<>>
    /\ ret = NoUrl
    /\ calls = <<>>
    /\ vsleeps = <<>>
    /\ result = NoResult
    /\ results = <<>>
    /\ progress = <<>>
    /\ tsleeps = <<>>
    /\ returned = NoStats
    /\ ncalls = 1
    /\ fn = NoFn
    /\ pc = "search"

CtlAttempt ==
    /\ pc = "search"
    /\ \E j \in CtlJitters : \E o \in AnyOutcomes : SearchWithRetriesStep(o, j)
    /\ UNCHANGED <<fn, rows, cfgDelay, max_retries, ytAvailable, stats, pre, tracks, i,
                   nvar, v, src, calls, vsleeps, result, results, progress, tsleeps,
                   returned, ncalls>>

\* the next call of _search_with_retries on the same bot
CtlCallAgain ==
    /\ pc \in {"returned", "raised"}
    /\ ncalls < MaxCtlCalls
    /\ ncalls' = ncalls + 1
    /\ attempt' = 0
    /\ trace' = <<>>
    /\ ret' = NoUrl
    /\ pc' = "search"
    /\ UNCHANGED <<fn, rows, cfgDelay, max_retries, ytAvailable, delay, stats, pre, tracks,
                   i, nvar, v, src, calls, vsleeps, result, results, progress, tsleeps,
                   returned>>

NextRetry == CtlAttempt \/ CtlCallAgain

SpecRetry == InitRetry /\ [][NextRetry]_vars

(***************************************************************************)
(* Properties of the run (Spec).                                           *)
(***************************************************************************)
Balanced(s) == s.total_songs = Terminal(s)

InResolution == pc \in {"search", "returned"}

\* C1 (as claimed): at every moment of a run, also in the middle of one
\* track's resolution, youtube_found + fourshared_found + not_found + errors
\* equals total_songs.
C1_BalancedAtAllTimes == Balanced(stats)

\* C1 (amended): the counters balance whenever no track is in resolution;
\* while one is, total_songs is exactly one more than the sum of the four
\* terminal counters.
C1_BalancedBetweenTracks ==
    IF InResolution
    THEN stats.total_songs = Terminal(stats) + 1
    ELSE Balanced(stats)

C1_Witness ==
    /\ pc = "returned"
    /\ i = 1
    /\ stats.total_songs = 2
    /\ Terminal(stats) = 1

\* C2: every stats snapshot handed to the progress sink, and the RunStats
\* run_playlist returns, satisfy total_songs = youtube_found +
\* fourshared_found + not_found + errors.
C2_SnapshotsBalanced ==
    /\ \A k \in 1..Len(progress) : Balanced(progress[k].stats)
    /\ pc = "done" => Balanced(returned)

C2_Witness ==
    /\ pc = "done"
    /\ Len(progress) = 2
    /\ returned = [total_songs |-> 2, youtube_found |-> 1, fourshared_found |-> 1,
                   not_found |-> 0, errors |-> 0]

Counters == {"youtube_found", "fourshared_found", "not_found", "errors"}

\* the terminal counter a result stands for
CounterOf(r) ==
    CASE r.status = "found" /\ r.youtube_url # NoUrl -> "youtube_found"
      [] r.status = "found" /\ r.fourshared_url # NoUrl -> "fourshared_found"
      [] r.status = "not_found" -> "not_found"
      [] r.status = "error" -> "errors"
      [] OTHER -> "none"

\* C3: when search_single_track returns, total_songs is one more than at its
\* entry, exactly one terminal counter is one more and the other three are
\* as they were, the counter raised is the one the returned result stands
\* for, and total_songs is the number of tracks resolved so far.
C3_OneCounterPerCall ==
    /\ pc = "resolved" =>
         /\ stats.total_songs = pre.total_songs + 1
         /\ CounterOf(result) \in Counters
         /\ \A c \in Counters :
               stats[c] = pre[c] + (IF c = CounterOf(result) THEN 1 ELSE 0)
         /\ stats.total_songs = i + 1
    /\ pc = "loop" => stats.total_songs = i

C3_Witness ==
    /\ pc = "resolved"
    /\ i = 1
    /\ result.status = "found"
    /\ result.fourshared_url # NoUrl
    /\ pre.youtube_found = 1
    /\ stats.fourshared_found = 1

\* C4: a returned SearchResult with status found has exactly one of
\* youtube_url and fourshared_url non-empty; with status not_found or error
\* both are empty; the two are never both set.
C4_OneUrlWhenFound ==
    /\ ~(result.youtube_url # NoUrl /\ result.fourshared_url # NoUrl)
    /\ pc = "resolved" =>
         /\ result.status \in {"found", "not_found", "error"}
         /\ result.status = "found" =>
               (result.youtube_url # NoUrl) # (result.fourshared_url # NoUrl)
         /\ result.status # "found" =>
               result.youtube_url = NoUrl /\ result.fourshared_url = NoUrl

C4_Witness ==
    /\ pc = "resolved"
    /\ result.status = "found"
    /\ result.youtube_url = NoUrl
    /\ result.fourshared_url = FsUrl
    /\ \E k \in 1..Len(calls) : calls[k].src = "ytm" /\ ~calls[k].ok

Rank(s) == CASE s = "ytm" -> 1 [] s = "yts" -> 2 [] s = "fs" -> 3 [] OTHER -> 0

\* the sources _search_youtube and _search_fourshared call for a variant
Available(s) == s # "ytm" \/ ytAvailable

\* C5: within one track's resolution the adapter invocations go through the
\* variants in order and, per variant, through the catalog (only if
\* available), the web scraper, the file host; a source is invoked for a
\* variant only after every earlier available source was invoked for that
\* variant without a validated URL, a variant only after the file host
\* failed for the variant before it, and no invocation follows a validated
\* URL.
C5_SourceOrder ==
    \A k \in 1..Len(calls) :
        /\ Available(calls[k].src)
        /\ calls[k].ok => k = Len(calls)
        /\ k = 1 => calls[k].v = 1 /\ calls[k].src = FirstSource
        /\ k > 1 =>
              \/ calls[k].v = calls[k - 1].v /\ Rank(calls[k].src) >= Rank(calls[k - 1].src)
              \/ /\ calls[k].v = calls[k - 1].v + 1
                 /\ calls[k - 1].src = "fs"
                 /\ calls[k].src = FirstSource
        /\ \A n \in 1..Len(Sources) :
              (Rank(calls[k].src) > n /\ Available(Sources[n])) =>
                 \E j \in 1..(k - 1) :
                    calls[j].v = calls[k].v /\ calls[j].src = Sources[n] /\ ~calls[j].ok
        /\ calls[k].v \in 1..nvar

C5_Witness ==
    /\ pc = "resolved"
    /\ result.status = "found"
    /\ ytAvailable
    /\ Len(calls) >= 5
    /\ calls[Len(calls)].v = 2
    /\ calls[Len(calls)].src = "yts"
    /\ calls[Len(calls)].ok

\* C10: the progress sink is invoked once per track, in input order: the
\* k-th invocation has completed = k, total = N and the label of the k-th
\* valid track, one invocation exists per track finished, and N when the run
\* is done.
C10_ProgressPerTrack ==
    /\ \A k \in 1..Len(progress) :
          /\ progress[k].completed = k
          /\ progress[k].total = Len(tracks)
          /\ progress[k].label = tracks[k]
    /\ Len(progress) = i
    /\ pc = "done" => Len(progress) = Len(tracks)

C10_Witness ==
    /\ pc = "done"
    /\ Len(tracks) = 2
    /\ Len(progress) = 2
    /\ progress[1].completed = 1
    /\ progress[2].completed = 2
    /\ Len(results) = 3

(***************************************************************************)
(* Properties of the controller (SpecRetry).                               *)
(***************************************************************************)
CallIdx(t) == {k \in 1..Len(t) : t[k].ev = "call"}
SleepIdx(t) == {k \in 1..Len(t) : t[k].ev = "sleep"}
BackoffIdx(t) == {k \in 1..Len(t) : t[k].ev = "sleep" /\ t[k].kind = "backoff"}

\* the invocations of a trace, in order
CallsOf(t) == SelectSeq(t, LAMBDA e : e.ev = "call")

Succeeds(o) == o.kind = "result" /\ o.url # NoUrl
Is429(o) == o.kind = "http" /\ o.status = 429

\* the invocation this step made ended in an HTTPError with status 429
Raised429InStep ==
    \E k \in (Len(trace) + 1)..Len(trace') :
        trace'[k].ev = "call" /\ Is429(trace'[k].out)

\* C6 (as claimed): whenever the wrapped call raises an HTTP 429 error, the
\* controller sets the shared base delay to min(delay * 1.5, 5.0 s).
C6_RateLimitRaisesDelay ==
    [][(pc = "search" /\ Len(trace') > Len(trace) /\ Raised429InStep)
          => delay' = RateLimitDelay(delay)]_vars

\* C7 (as claimed): _search_with_retries never raises to its caller,
\* whatever the wrapped call does.
C7_NeverRaises == pc # "raised"

\* C8: one call of _search_with_retries invokes the wrapped call at most
\* max_retries times, nothing precedes the first invocation, and an
\* invocation that returns a non-empty result is the last event of the
\* call, which returns that result.
C8_BoundedAndShortCircuit ==
    /\ Cardinality(CallIdx(trace)) <= max_retries
    /\ trace # <<>> => trace[1].ev = "call"
    /\ \A k \in CallIdx(trace) :
          Succeeds(trace[k].out) =>
             /\ k = Len(trace)
             /\ pc = "returned"
             /\ ret = trace[k].out.url
    /\ (pc = "returned" /\ ret # NoUrl) =>
          /\ trace # <<>>
          /\ Succeeds(trace[Len(trace)].out)
    /\ (pc = "returned" /\ ret = NoUrl) => Cardinality(CallIdx(trace)) = max_retries

C8_Witness ==
    /\ pc = "returned"
    /\ max_retries = 3
    /\ ret = WatchUrl(VideoIdLen)
    /\ Cardinality(CallIdx(trace)) = 2
    /\ trace[1].out.kind = "exc"

\* a finished call with max_retries = 3 whose function failed twice and
\* then succeeded
FailFailSucceed ==
    /\ pc = "returned"
    /\ max_retries = 3
    /\ Len(CallsOf(trace)) = 3
    /\ ~Succeeds(CallsOf(trace)[1].out)
    /\ ~Succeeds(CallsOf(trace)[2].out)
    /\ Succeeds(CallsOf(trace)[3].out)

ReturnsEmpty(o) == o.kind = "result" /\ o.url = NoUrl

LoopOver == pc = "done"

\* C11 (as claimed): when the track loop ends, results holds exactly one
\* entry per input track, in input order, each with the index of its track,
\* also when the progress sink raised for some track.
C11_OneEntryPerTrack ==
    LoopOver =>
       /\ Len(results) = Len(tracks)
       /\ \A k \in 1..Len(results) : results[k].index = tracks[k]

\* the page requests issued so far for the source and variant in use
RECURSIVE PagesOf(_)
PagesOf(t) ==
    IF t = <<>> THEN 0
    ELSE (IF Head(t).ev = "call" THEN Head(t).out.pages ELSE 0) + PagesOf(Tail(t))

IsScraper(s) == s \in {"yts", "fs"}

\* C12 (as claimed): the page requests issued for one scraper source and
\* one variant are at most the adapter's local retry count.
C12_PagesWithinLocalRetries ==
    IsScraper(src) => PagesOf(trace) <= LocalRetries

\* C12 (amended): one invocation of a scraper adapter issues at most
\* LocalRetries page requests, and the lookup of one source for one variant
\* at most LocalRetries * max_retries, because the controller invokes the
\* adapter again whenever it returned nothing.
C12_PagesWithinBothRetries ==
    IsScraper(src) =>
       /\ \A k \in 1..Len(trace) :
             trace[k].ev = "call" => trace[k].out.pages \in 1..LocalRetries
       /\ PagesOf(trace) <= LocalRetries * max_retries
       /\ (pc = "returned" /\ ret = NoUrl) => PagesOf(trace) = LocalRetries * max_retries

C12_Witness ==
    /\ pc = "returned"
    /\ src = "yts"
    /\ max_retries = 2
    /\ ret = NoUrl
    /\ PagesOf(trace) = 4

HasValidRow == \E k \in 1..Len(rows) : rows[k] = "ok"

NothingProcessed ==
    /\ stats = ZeroStats
    /\ calls = <<>>
    /\ trace = <<>>
    /\ progress = <<>>
    /\ results = <<>>
    /\ tracks = <<>>
    /\ returned = NoStats

\* C13: with no row that has both fields non-blank, run_playlist fails
\* before anything is processed (no resolver call, no adapter invocation, no
\* sink invocation, nothing returned), it fails for no other input, and in
\* every run only rows with both fields non-blank reach the resolver, the
\* results and the sink.
C13_NoValidTrackFailsEarly ==
    /\ ~HasValidRow => (pc \in {"init", "failed"} /\ NothingProcessed)
    /\ pc = "failed" => ~HasValidRow
    /\ \A k \in 1..Len(tracks) : rows[tracks[k]] = "ok"
    /\ pc \in {"search", "returned", "resolved"} => rows[result.track] = "ok"
    /\ \A k \in 1..Len(results) : rows[results[k].index] = "ok"
    /\ \A k \in 1..Len(progress) : rows[progress[k].label] = "ok"

C13_Witness ==
    /\ pc = "failed"
    /\ rows = <<"blank", "blank">>
    /\ NothingProcessed

\* A measure of how far a run has come: the tracks finished, then within
\* the track the variant, the source, and the controller's attempt.
CallWidth == max_retries + 1
TrackWidth == 2 + MaxVariants * Len(Sources) * CallWidth

Measure ==
    CASE pc = "init" -> -1
      [] pc = "failed" -> 0
      [] pc = "loop" -> i * TrackWidth
      [] pc = "done" -> i * TrackWidth + 1
      [] pc = "resolved" -> i * TrackWidth + 1 + MaxVariants * Len(Sources) * CallWidth
      [] pc \in {"search", "returned"} ->
            i * TrackWidth + 1
            + ((v - 1) * Len(Sources) + (Rank(src) - 1)) * CallWidth
            + (IF pc = "search" THEN attempt ELSE max_retries)

RunOver == pc \in {"done", "failed"}

\* C14: every run terminates.  Each step moves the run strictly forward in
\* a bounded measure, a run that is not over can always take a step, and one
\* track's resolution makes at most 3 variants x 3 sources x max_retries
\* adapter invocations, each of at most LocalRetries page requests.
C14_Terminates ==
    /\ [][Measure' > Measure]_vars
    /\ [](/\ Measure <= (MaxRows + 1) * TrackWidth
          /\ RunOver \/ ENABLED Next
          /\ Len(calls) <= MaxVariants * Len(Sources) * max_retries
          /\ \A k \in 1..Len(trace) : trace[k].out.pages <= LocalRetries)

C14_Witness ==
    /\ pc = "done"
    /\ ytAvailable
    /\ max_retries = 2
    /\ Len(calls) = MaxVariants * Len(Sources) * max_retries
    /\ stats.not_found = 1

\* C15 (as claimed): after each finished track except the last there is
\* exactly one inter-track sleep of the configured delay, and none after the
\* last track.
C15_SleepBetweenTracks ==
    pc \notin {"init", "failed"} =>
       /\ Len(tsleeps) = Min(i, Len(tracks) - 1)
       /\ \A k \in 1..Len(tsleeps) : tsleeps[k] = [after |-> k, dur |-> cfgDelay]

\* C16: when no variant is generated, search_single_track returns status
\* error with both URL fields empty, has counted total_songs and errors
\* once each and nothing else, and has invoked no adapter and slept nowhere;
\* in a run no other resolution ends in status error.
C16_NoVariantIsError ==
    pc = "resolved" =>
       /\ nvar = 0 =>
             /\ result.status = "error"
             /\ result.youtube_url = NoUrl
             /\ result.fourshared_url = NoUrl
             /\ stats = [pre EXCEPT !.total_songs = @ + 1, !.errors = @ + 1]
             /\ calls = <<>>
             /\ trace = <<>>
             /\ vsleeps = <<>>
       /\ result.status = "error" => nvar = 0

C16_Witness ==
    /\ pc = "resolved"
    /\ nvar = 0
    /\ i = 1
    /\ stats.errors = 1
    /\ stats.total_songs = 2

(***************************************************************************)
(* Properties of the run (Spec): results against statistics.               *)
(***************************************************************************)
\* the number of entries of the result list with a status
WithStatus(st) == Cardinality({k \in 1..Len(results) : results[k].status = st})

\* C25 (as claimed): when the track loop ends, the result list agrees with
\* the final statistics: as many entries with status error as errors, with
\* status not_found as not_found, and with status found as youtube_found +
\* fourshared_found, also when the progress sink raised for some track.
C25_ResultsAgreeWithStats ==
    LoopOver =>
       /\ WithStatus("error") = returned.errors
       /\ WithStatus("not_found") = returned.not_found
       /\ WithStatus("found") = returned.youtube_found + returned.fourshared_found

(***************************************************************************)
(* Texts.  A text is a sequence of characters and a character is written   *)
(* as a string: "e_acute" and "E_acute" are the precomposed letters U+00E9 *)
(* and U+00C9, "acute" is the combining mark U+0301 (category Mn), " " is  *)
(* the only white space of the alphabet.                                   *)
(***************************************************************************)
\* str.lower, one character
Lower(c) ==
    CASE c = "A" -> "a"
      [] c = "B" -> "b"
      [] c = "C" -> "c"
      [] c = "D" -> "d"
      [] c = "E" -> "e"
      [] c = "F" -> "f"
      [] c = "G" -> "g"
      [] c = "H" -> "h"
      [] c = "I" -> "i"
      [] c = "J" -> "j"
      [] c = "K" -> "k"
      [] c = "L" -> "l"
      [] c = "M" -> "m"
      [] c = "N" -> "n"
      [] c = "O" -> "o"
      [] c = "P" -> "p"
      [] c = "Q" -> "q"
      [] c = "R" -> "r"
      [] c = "S" -> "s"
      [] c = "T" -> "t"
      [] c = "U" -> "u"
      [] c = "V" -> "v"
      [] c = "W" -> "w"
      [] c = "X" -> "x"
      [] c = "Y" -> "y"
      [] c = "Z" -> "z"
      [] c = "E_acute" -> "e_acute"
      [] OTHER -> c

\* the characters matched by \w, so that \b lies between one and a neighbour
\* that is not one
WordChars ==
    {"a", "b", "c", "d", "e", "f", "g", "h", "i", "j", "k", "l", "m", "n", "o", "p", "q", "r", "s", "t", "u", "v", "w", "x", "y", "z",
     "A", "B", "C", "D", "E", "F", "G", "H", "I", "J", "K", "L", "M", "N", "O", "P", "Q", "R", "S", "T", "U", "V", "W", "X", "Y", "Z",
     "0", "1", "2", "3", "4", "5", "6", "7", "8", "9", "_", "e_acute", "E_acute"}

IsWord(c) == c \in WordChars

IsSpace(c) == c = " "

\* unicodedata.category(char) == 'Mn'
IsMn(c) == c = "acute"

\* unicodedata.normalize('NFD', ...), one character
NFD(c) ==
    CASE c = "e_acute" -> <<"e", "acute">>
      [] c = "E_acute" -> <<"E", "acute">>
      [] OTHER -> <<c>>

RECURSIVE Decompose(_)
Decompose(text) ==
    IF text = <<>> THEN <<>> ELSE NFD(Head(text)) \o Decompose(Tail(text))

LowerText(text) == [k \in 1..Len(text) |-> Lower(text[k])]

RECURSIVE LStrip(_)
LStrip(text) ==
    IF text # <<>> /\ IsSpace(Head(text)) THEN LStrip(Tail(text)) ELSE text

RECURSIVE RStrip(_)
RStrip(text) ==
    IF text # <<>> /\ IsSpace(text[Len(text)])
    THEN RStrip(SubSeq(text, 1, Len(text) - 1))
    ELSE text

\* str.strip()
strip(text) == RStrip(LStrip(text))

\* a in b for two texts
Contains(b, a) ==
    \E p \in 1..(Len(b) + 1) :
        /\ p + Len(a) - 1 <= Len(b)
        /\ \A k \in 1..Len(a) : b[p + k - 1] = a[k]

\* f"{a} {b}"
Join(a, b) == a \o <<" ">> \o b

normalize_text(text) ==
    IF text = <<>>
    THEN <<>>
    ELSE strip(LowerText(SelectSeq(Decompose(text), LAMBDA c : ~IsMn(c))))

\* re.sub(r'\([^)]*\)', '', text) with the pair of delimiters as arguments:
\* a group runs from an opening delimiter to the first closing one after it
RECURSIVE RemoveGroups(_, _, _)
RemoveGroups(text, open, close) ==
    IF text = <<>>
    THEN <<>>
    ELSE LET Closers == {k \in 2..Len(text) : text[k] = close}
         IN  IF Head(text) = open /\ Closers # {}
             THEN LET k == CHOOSE m \in Closers : \A n \in Closers : m <= n
                  IN  RemoveGroups(SubSeq(text, k + 1, Len(text)), open, close)
             ELSE <<Head(text)>> \o RemoveGroups(Tail(text), open, close)

remove_terms ==
    <<<<"f", "e", "a", "t">>,
      <<"f", "e", "a", "t", "u", "r", "i", "n", "g">>,
      <<"f", "t">>,
      <<"r", "e", "m", "i", "x">>,
      <<"e", "d", "i", "t">>,
      <<"m", "i", "x">>,
      <<"v", "e", "r", "s", "i", "o", "n">>,
      <<"r", "e", "m", "a", "s", "t", "e", "r">>,
      <<"r", "e", "m", "a", "s", "t", "e", "r", "e", "d">>,
      <<"r", "a", "d", "i", "o", " ", "e", "d", "i", "t">>,
      <<"e", "x", "t", "e", "n", "d", "e", "d">>,
      <<"c", "l", "u", "b", " ", "m", "i", "x">>,
      <<"a", "c", "o", "u", "s", "t", "i", "c">>,
      <<"l", "i", "v", "e">>,
      <<"d", "e", "m", "o">>,
      <<"i", "n", "s", "t", "r", "u", "m", "e", "n", "t", "a", "l">>,
      <<"k", "a", "r", "a", "o", "k", "e">>>>

\* \b term \b matches at position p, ignoring case
MatchesAt(text, p, term) ==
    /\ p + Len(term) - 1 <= Len(text)
    /\ \A k \in 1..Len(term) : Lower(text[p + k - 1]) = term[k]
    /\ p = 1 \/ ~IsWord(text[p - 1])
    /\ p + Len(term) > Len(text) \/ ~IsWord(text[p + Len(term)])

\* re.sub(r'\b' + term + r'\b.*', '', text, flags=re.IGNORECASE): the text
\* is cut at the first match, the rest of the line goes with it
CutAt(text, term) ==
    LET Matches == {p \in 1..Len(text) : MatchesAt(text, p, term)}
    IN  IF Matches = {}
        THEN text
        ELSE LET p == CHOOSE m \in Matches : \A n \in Matches : m <= n
             IN  SubSeq(text, 1, p - 1)

\* the loop of lines 43-45 over terms[k..]
RECURSIVE CutAtTerms(_, _, _)
CutAtTerms(text, terms, k) ==
    IF k > Len(terms) THEN text ELSE CutAtTerms(CutAt(text, terms[k]), terms, k + 1)

\* re.sub(r'\s+', ' ', text)
RECURSIVE CollapseSpaces(_)
CollapseSpaces(text) ==
    IF text = <<>>
    THEN <<>>
    ELSE IF IsSpace(Head(text))
         THEN <<" ">> \o CollapseSpaces(LStrip(Tail(text)))
         ELSE <<Head(text)>> \o CollapseSpaces(Tail(text))

clean_query(track_name, artist_name) ==
    IF track_name = <<>> \/ artist_name = <<>>
    THEN <<>>
    ELSE LET t1 == RemoveGroups(RemoveGroups(strip(track_name), "(", ")"), "[", "]")
             t2 == CutAtTerms(t1, remove_terms, 1)
             a1 == RemoveGroups(RemoveGroups(strip(artist_name), "(", ")"), "[", "]")
             clean_track  == normalize_text(strip(CollapseSpaces(t2)))
             clean_artist == normalize_text(strip(CollapseSpaces(a1)))
         IN  strip(Join(clean_track, clean_artist))

\* lines 77-82 without the test of seen: every non-empty variant is kept
unique_variants_KeepAll(variants) == SelectSeq(variants, LAMBDA q : q # <<>>)

\* lines 77-82: the non-empty variants, each at its first occurrence
RECURSIVE unique_variants(_)
unique_variants(variants) ==
    IF variants = <<>>
    THEN <<>>
    ELSE LET last == variants[Len(variants)]
             rest == unique_variants(SubSeq(variants, 1, Len(variants) - 1))
         IN  IF last # <<>> /\ \A k \in 1..Len(rest) : rest[k] # last
             THEN Append(rest, last)
             ELSE rest

generate_search_variants(track_name, artist_name) ==
    LET main_query   == clean_query(track_name, artist_name)
        clean_track  == normalize_text(strip(track_name))
        clean_artist == normalize_text(strip(artist_name))
        variants ==
            (IF main_query # <<>> THEN <<main_query>> ELSE <<>>)
            \o (IF clean_artist # <<>> /\ clean_track # <<>>
                THEN <<Join(clean_artist, clean_track)>> ELSE <<>>)
            \o (IF clean_track # <<>> /\ Len(clean_track) > 3
                THEN <<clean_track>> ELSE <<>>)
        unique == unique_variants(variants)
    IN  SubSeq(unique, 1, Min(Len(unique), MaxVariants))

(***************************************************************************)
(* generate_search_variants on its own: one call on a pair of texts.       *)
(***************************************************************************)
TrackTexts ==
    {<<>>,
     <<" ">>,
     <<"a", "b">>,
     <<"a", "b", "c", "d">>,
     <<"A", "b", "c", "d">>,
     <<" ", "a", "b", "c", "d", " ">>,
     <<"a", "b", "c", "d", " ", "(", "l", "i", "v", "e", ")">>,
     <<"a", "b", "c", "d", " ", "[", "x", "]", " ", "f", "t", " ", "b">>,
     <<"l", "i", "v", "e">>,
     <<"a", "l", "i", "v", "e">>,
     <<"a", "b", "c", "d", " ", "r", "e", "m", "i", "x">>,
     <<"c", "a", "f", "e_acute">>,
     <<"acute">>,
     <<"a", "b", " ", " ", "c", "d">>,
     <<"a", "b", "c">>}

ArtistTexts ==
    {<<>>,
     <<" ">>,
     <<"b">>,
     <<"B">>,
     <<"a", "b", "c", "d">>,
     <<"E_acute", "b">>,
     <<"acute">>,
     <<"(", "x", ")">>,
     <<"b", " ", "[", "x", "]">>}


\* the variables of the run, which a function called on its own leaves alone
runVars == <<rows, cfgDelay, max_retries, ytAvailable, delay, stats, pre, tracks,
             i, nvar, v, src, attempt, trace, ret, calls, vsleeps, result,
             results, progress, tsleeps, returned, ncalls, pc>>

\* no run and no bot
NoRun ==
    /\ rows = <<>>
    /\ cfgDelay = 1500
    /\ max_retries = 1
    /\ ytAvailable = FALSE
    /\ delay = cfgDelay
    /\ stats = ZeroStats
    /\ pre = ZeroStats
    /\ tracks = <<>>
    /\ i = 0
    /\ nvar = 0
    /\ v = 0
    /\ src = "none"
    /\ attempt = 0
    /\ trace = <<>>
    /\ ret = NoUrl
    /\ calls = <<>>
    /\ vsleeps = <<>>
    /\ result = NoResult
    /\ results = <<>>
    /\ progress = <<>>
    /\ tsleeps = <<>>
    /\ returned = NoStats
    /\ ncalls = 0
    /\ pc = "call"

InitVariants ==
    /\ NoRun
    /\ \E t \in TrackTexts : \E a \in ArtistTexts :
          fn = [op |-> "generate_search_variants", track |-> t, artist |-> a,
                done |-> FALSE, out |-> <<>>]

CallVariants ==
    /\ fn.op = "generate_search_variants"
    /\ ~fn.done
    /\ fn' = [fn EXCEPT !.done = TRUE,
                        !.out = generate_search_variants(fn.track, fn.artist)]
    /\ UNCHANGED runVars

NextVariants == CallVariants

SpecVariants == InitVariants /\ [][NextVariants]_vars

(***************************************************************************)
(* Properties of generate_search_variants (SpecVariants).                  *)
(***************************************************************************)
VariantsDone == fn.op = "generate_search_variants" /\ fn.done

\* the three queries of lines 64-75, in the order the function builds them
Candidates(t, a) ==
    <<clean_query(t, a),
      Join(normalize_text(strip(a)), normalize_text(strip(t))),
      normalize_text(strip(t))>>

\* whether the function offers candidate j at all
Offered(t, a, j) ==
    CASE j = 1 -> clean_query(t, a) # <<>>
      [] j = 2 -> normalize_text(strip(a)) # <<>> /\ normalize_text(strip(t)) # <<>>
      [] j = 3 -> Len(normalize_text(strip(t))) > 3

\* the candidates that are offered and equal to the query q
Origins(t, a, q) == {j \in 1..3 : Offered(t, a, j) /\ Candidates(t, a)[j] = q}

FirstOrigin(t, a, q) == CHOOSE j \in Origins(t, a, q) : \A m \in Origins(t, a, q) : j <= m

\* C17: for every pair of texts generate_search_variants returns at most 3
\* entries, all non-empty and pairwise distinct, in first-seen order of
\* (cleaned track+artist, normalized artist+track, normalized track alone
\* when longer than 3 characters): every entry is one of the offered
\* candidates, every offered candidate is an entry, and the entries stand in
\* the order of their first candidates.  For two empty inputs the result is
\* the empty list.
C17_VariantsContract ==
    VariantsDone =>
       LET t == fn.track
           a == fn.artist
           r == fn.out
       IN  /\ Len(r) <= 3
           /\ \A k \in 1..Len(r) : r[k] # <<>>
           /\ \A j, k \in 1..Len(r) : j < k => r[j] # r[k]
           /\ \A k \in 1..Len(r) : Origins(t, a, r[k]) # {}
           /\ \A j \in 1..3 :
                 Offered(t, a, j) => \E k \in 1..Len(r) : r[k] = Candidates(t, a)[j]
           /\ \A j, k \in 1..Len(r) :
                 j < k => FirstOrigin(t, a, r[j]) < FirstOrigin(t, a, r[k])
           /\ (t = <<>> /\ a = <<>>) => r = <<>>

\* a call whose three candidates are all offered and two of them are the same
\* query, so that the result has two entries
C17_Witness ==
    /\ VariantsDone
    /\ \A j \in 1..3 : Offered(fn.track, fn.artist, j)
    /\ Candidates(fn.track, fn.artist)[1] = Candidates(fn.track, fn.artist)[3]
    /\ Len(fn.out) = 2

(***************************************************************************)
(* Floats.  The relevance is a Python float: a double, whose sums are      *)
(* rounded to 53 significant bits, ties to even.  A double of this model   *)
(* is a sign and a magnitude counted in units of 2^-56, the magnitude      *)
(* written in two limbs as hi * 2^28 + lo.  Every double between 2^-4 and  *)
(* 1 is a whole number of units, and so is every sum or difference of two  *)
(* of them before rounding.                                                *)
(***************************************************************************)
Limb == 2^28

\* the literals 0.0, 0.5, 0.3, 0.2 and 0.1 of lines 411-426
Zero == [neg |-> FALSE, hi |-> 0, lo |-> 0]
Half == [neg |-> FALSE, hi |-> 134217728, lo |-> 0]
ThreeTenths == [neg |-> FALSE, hi |-> 80530636, lo |-> 214748364]
TwoTenths == [neg |-> FALSE, hi |-> 53687091, lo |-> 53687092]
OneTenth == [neg |-> FALSE, hi |-> 26843545, lo |-> 161061274]

MagLess(x, y) == x.hi < y.hi \/ (x.hi = y.hi /\ x.lo < y.lo)

MagAdd(x, y) ==
    [hi |-> x.hi + y.hi + ((x.lo + y.lo) \div Limb), lo |-> (x.lo + y.lo) % Limb]

\* x - y for two magnitudes, y not above x
MagSub(x, y) ==
    IF x.lo >= y.lo
    THEN [hi |-> x.hi - y.hi, lo |-> x.lo - y.lo]
    ELSE [hi |-> x.hi - y.hi - 1, lo |-> x.lo + Limb - y.lo]

\* the distance between neighbouring doubles at this magnitude, in units
Ulp(m) ==
    IF m.hi >= 2^28 THEN 16
    ELSE IF m.hi >= 2^27 THEN 8
    ELSE IF m.hi >= 2^26 THEN 4
    ELSE IF m.hi >= 2^25 THEN 2
    ELSE 1

\* round to nearest, ties to even
RoundMag(m) ==
    LET u  == Ulp(m)
        q  == m.lo \div u
        r  == m.lo % u
        up == 2 * r > u \/ (2 * r = u /\ q % 2 = 1)
        lo == (IF up THEN q + 1 ELSE q) * u
    IN  IF lo = Limb THEN [hi |-> m.hi + 1, lo |-> 0] ELSE [hi |-> m.hi, lo |-> lo]

Signed(neg, m) == [neg |-> neg /\ (m.hi > 0 \/ m.lo > 0), hi |-> m.hi, lo |-> m.lo]

\* x + y
FAdd(x, y) ==
    IF x.neg = y.neg
    THEN Signed(x.neg, RoundMag(MagAdd(x, y)))
    ELSE IF MagLess(x, y)
         THEN Signed(y.neg, RoundMag(MagSub(y, x)))
         ELSE Signed(x.neg, RoundMag(MagSub(x, y)))

\* x - y
FSub(x, y) == FAdd(x, [y EXCEPT !.neg = ~y.neg])

\* x < y
FLess(x, y) ==
    CASE x.neg /\ ~y.neg  -> TRUE
      [] ~x.neg /\ y.neg  -> FALSE
      [] ~x.neg /\ ~y.neg -> MagLess(x, y)
      [] x.neg /\ y.neg   -> MagLess(y, x)

\* line 428 without the clamp
ClampAtZero_Off(r) == r

\* max(0.0, r), line 428
ClampAtZero(r) == IF FLess(Zero, r) THEN r ELSE Zero

(***************************************************************************)
(* FourSharedScraper: the relevance of a candidate and the choice among    *)
(* the candidates of one results page.                                     *)
(***************************************************************************)
audio_extensions ==
    <<<<".", "m", "p", "3">>,
      <<".", "m", "4", "a">>,
      <<".", "w", "a", "v">>,
      <<".", "f", "l", "a", "c">>,
      <<".", "a", "a", "c">>>>

avoid_terms ==
    <<<<"r", "e", "m", "i", "x">>,
      <<"k", "a", "r", "a", "o", "k", "e">>,
      <<"i", "n", "s", "t", "r", "u", "m", "e", "n", "t", "a", "l">>,
      <<"c", "o", "v", "e", "r">>,
      <<"l", "i", "v", "e">>>>

\* lines 423-426 over terms[k..]
RECURSIVE Demote(_, _, _)
Demote(relevance, title_normalized, k) ==
    IF k > Len(avoid_terms)
    THEN relevance
    ELSE Demote(IF Contains(title_normalized, avoid_terms[k])
                THEN FSub(relevance, OneTenth)
                ELSE relevance,
                title_normalized, k + 1)

_calculate_relevance(title, track_name, artist_name) ==
    IF title = <<>>
    THEN Zero
    ELSE LET title_normalized  == normalize_text(title)
             track_normalized  == IF track_name # <<>> THEN normalize_text(track_name) ELSE <<>>
             artist_normalized == IF artist_name # <<>> THEN normalize_text(artist_name) ELSE <<>>
             r1 == IF track_normalized # <<>> /\ Contains(title_normalized, track_normalized)
                   THEN FAdd(Zero, Half) ELSE Zero
             r2 == IF artist_normalized # <<>> /\ Contains(title_normalized, artist_normalized)
                   THEN FAdd(r1, ThreeTenths) ELSE r1
             r3 == IF \E e \in 1..Len(audio_extensions) :
                          Contains(title_normalized, audio_extensions[e])
                   THEN FAdd(r2, TwoTenths) ELSE r2
         IN  ClampAtZero(Demote(r3, title_normalized, 1))

\* sorted(): a link that is put to the front of links that rank strictly below
\* it and of links that rank the same
Insert_BeforeEqual(sorted_links, link) ==
    LET Ahead == {k \in 1..Len(sorted_links) :
                     FLess(link.relevance, sorted_links[k].relevance)}
        n == Cardinality(Ahead)
    IN  SubSeq(sorted_links, 1, n) \o <<link>>
        \o SubSeq(sorted_links, n + 1, Len(sorted_links))

\* sorted(..., reverse=True) is stable: a link goes behind every link placed
\* before it that does not rank strictly below it
Insert(sorted_links, link) ==
    LET Ahead == {k \in 1..Len(sorted_links) :
                     ~FLess(sorted_links[k].relevance, link.relevance)}
        n == Cardinality(Ahead)
    IN  SubSeq(sorted_links, 1, n) \o <<link>>
        \o SubSeq(sorted_links, n + 1, Len(sorted_links))

\* line 434: the links in descending order of relevance
RECURSIVE Sorted(_)
Sorted(links) ==
    IF links = <<>>
    THEN <<>>
    ELSE Insert(Sorted(SubSeq(links, 1, Len(links) - 1)), links[Len(links)])

\* the url of a link is its position on the page; 0 is None
_select_best_link(links) ==
    IF links = <<>> THEN 0 ELSE Sorted(links)[1].url

\* lines 365-369, 377-381, 339-343: the candidates of a page in the order they
\* are met, each with its relevance
audio_links(titles, track_name, artist_name) ==
    [k \in 1..Len(titles) |->
        [url |-> k, title |-> titles[k],
         relevance |-> _calculate_relevance(titles[k], track_name, artist_name)]]

TitleTexts ==
    {<<"x", "y", " ", "a", "b", "c", "d", ".", "m", "p", "3">>,
     <<"x", "y", " ", "a", "b", "c", "d", " ", "r", "e", "m", "i", "x", " ", "r", "e", "m", "i", "x", ".", "m", "p", "3">>,
     <<"x", "y", " ", "a", "b", "c", "d">>,
     <<"x", "y", " ", "a", "b", "c", "d", " ", "r", "e", "m", "i", "x">>,
     <<"a", "b", "c", "d", " ", "r", "e", "m", "i", "x", " ", "k", "a", "r", "a", "o", "k", "e", " ", "i", "n", "s", "t", "r", "u", "m", "e", "n", "t", "a", "l", " ", "c", "o", "v", "e", "r", " ", "l", "i", "v", "e">>,
     <<"x", "y", " ", "l", "i", "v", "e">>,
     <<"z", ".", "m", "p", "3">>,
     <<>>,
     <<"A", "b", "c", "d", " ", "X", "Y">>}

\* (track_name, artist_name)
NamePairs ==
    {<<<<"a", "b", "c", "d">>, <<"x", "y">>>>,
     <<<<"A", "B", "C", "D">>, <<>>>>}

MaxLinks == 3

InitRelevance ==
    /\ NoRun
    /\ \E p \in NamePairs : \E ts \in SeqsUpTo(TitleTexts, MaxLinks) :
          fn = [op |-> "_search_attempt", track |-> p[1], artist |-> p[2],
                titles |-> ts, step |-> "page", links |-> <<>>, out |-> 0]

\* line 302
FindAudioLinks ==
    /\ fn.op = "_search_attempt"
    /\ fn.step = "page"
    /\ fn' = [fn EXCEPT !.step = "links",
                        !.links = audio_links(fn.titles, fn.track, fn.artist)]
    /\ UNCHANGED runVars

\* lines 304-305
SelectBestLink ==
    /\ fn.op = "_search_attempt"
    /\ fn.step = "links"
    /\ fn' = [fn EXCEPT !.step = "selected", !.out = _select_best_link(fn.links)]
    /\ UNCHANGED runVars

NextRelevance == FindAudioLinks \/ SelectBestLink

SpecRelevance == InitRelevance /\ [][NextRelevance]_vars

(***************************************************************************)
(* Properties of the relevance and of the selection (SpecRelevance).       *)
(***************************************************************************)
Scored == fn.op = "_search_attempt" /\ fn.step \in {"links", "selected"}

Selected == fn.op = "_search_attempt" /\ fn.step = "selected"

\* the doubles nearest to 0.1, 0.2, ... 1.0
Tenths ==
    <<[neg |-> FALSE, hi |-> 26843545, lo |-> 161061274],
      [neg |-> FALSE, hi |-> 53687091, lo |-> 53687092],
      [neg |-> FALSE, hi |-> 80530636, lo |-> 214748364],
      [neg |-> FALSE, hi |-> 107374182, lo |-> 107374184],
      [neg |-> FALSE, hi |-> 134217728, lo |-> 0],
      [neg |-> FALSE, hi |-> 161061273, lo |-> 161061272],
      [neg |-> FALSE, hi |-> 187904819, lo |-> 53687088],
      [neg |-> FALSE, hi |-> 214748364, lo |-> 214748368],
      [neg |-> FALSE, hi |-> 241591910, lo |-> 107374184],
      [neg |-> FALSE, hi |-> 268435456, lo |-> 0]>>

Tenth(n) == IF n = 0 THEN Zero ELSE Tenths[n]

\* how far apart two doubles that are not negative lie, in units of 2^-56
UnitsApart(x, y) ==
    IF x.hi - y.hi \in {-1, 0, 1}
    THEN LET d == (x.hi - y.hi) * Limb + x.lo - y.lo IN IF d < 0 THEN -d ELSE d
    ELSE Limb

\* x is n tenths up to the rounding of a handful of sums: within 2^-50
IsTenths(x, n) == ~x.neg /\ UnitsApart(x, Tenth(n)) <= 2^6

Max0(n) == IF n < 0 THEN 0 ELSE n

\* how many times a term occurs in a text
Occurrences(text, term) ==
    Cardinality({p \in 1..Len(text) :
                    /\ p + Len(term) - 1 <= Len(text)
                    /\ \A k \in 1..Len(term) : text[p + k - 1] = term[k]})

RECURSIVE SumOver(_, _)
SumOver(f, n) == IF n = 0 THEN 0 ELSE f[n] + SumOver(f, n - 1)

HasExtension(text) ==
    \E e \in 1..Len(audio_extensions) : Contains(text, audio_extensions[e])

\* which of track, artist and extension the text of a candidate matches
Matches(link) ==
    LET text == normalize_text(link.title)
        track == normalize_text(fn.track)
        artist == normalize_text(fn.artist)
    IN  IF text = <<>>
        THEN <<FALSE, FALSE, FALSE>>
        ELSE <<track # <<>> /\ Contains(text, track),
               artist # <<>> /\ Contains(text, artist),
               HasExtension(text)>>

\* C18 (as claimed): the relevance of a candidate is max(0, 0.5*[normalized
\* track is a substring of the text] + 0.3*[normalized artist is a substring]
\* + 0.2*[the text contains an audio extension] - 0.1 * (the number of
\* occurrences of the demotion terms in the text)); it is never negative.
\* The claim is read in its favour: the text is the normalized text, an empty
\* track or artist matches nothing, and the equality is up to rounding.
C18_ScorePerOccurrence ==
    Scored =>
       \A k \in 1..Len(fn.links) :
       \A text \in {normalize_text(fn.links[k].title)} :
       \A m \in {Matches(fn.links[k])} :
          LET occurrences ==
                  SumOver([t \in 1..Len(avoid_terms) |-> Occurrences(text, avoid_terms[t])],
                          Len(avoid_terms))
              tenths == (IF m[1] THEN 5 ELSE 0) + (IF m[2] THEN 3 ELSE 0)
                        + (IF m[3] THEN 2 ELSE 0) - occurrences
          IN  IsTenths(fn.links[k].relevance, Max0(tenths))

\* C18 (amended): with the same reading the relevance is max(0, 0.5*[track
\* matches] + 0.3*[artist matches] + 0.2*[the text contains an audio
\* extension] - 0.1 * (the number of the demotion terms that occur in the
\* text, each counted once however often it occurs)); it is never negative,
\* and it is 0.0 for an empty text.
C18_ScorePerTerm ==
    Scored =>
       \A k \in 1..Len(fn.links) :
       \A text \in {normalize_text(fn.links[k].title)} :
       \A m \in {Matches(fn.links[k])} :
          LET present == Cardinality({t \in 1..Len(avoid_terms) :
                                         Contains(text, avoid_terms[t])})
              tenths == (IF m[1] THEN 5 ELSE 0) + (IF m[2] THEN 3 ELSE 0)
                        + (IF m[3] THEN 2 ELSE 0) - present
          IN  /\ IsTenths(fn.links[k].relevance, Max0(tenths))
              /\ fn.links[k].title = <<>> => fn.links[k].relevance = Zero

\* a candidate that names track and artist, has an extension and says remix
\* twice, scored 0.9; and one with five demotion terms, scored above 0.0 by
\* the rounding of 0.5 - 0.1 - 0.1 - 0.1 - 0.1 - 0.1
C18_Witness ==
    /\ Scored
    /\ Len(fn.links) = 2
    /\ Occurrences(normalize_text(fn.links[1].title), avoid_terms[1]) = 2
    /\ fn.links[1].relevance = Tenth(9)
    /\ \A t \in 1..Len(avoid_terms) :
          Contains(normalize_text(fn.links[2].title), avoid_terms[t])
    /\ FLess(Zero, fn.links[2].relevance)
    /\ IsTenths(fn.links[2].relevance, 0)

Demoted(link) ==
    \E t \in 1..Len(avoid_terms) : Contains(normalize_text(link.title), avoid_terms[t])

\* C19: among a non-empty list of candidates the selected one has maximal
\* relevance and every candidate met before it has strictly less; a candidate
\* whose text matches track and artist without a demotion term scores
\* strictly above a candidate with the same matches that contains remix, and
\* the latter is then not the selected one.
C19_FirstOfTheBest ==
    (Selected /\ fn.links # <<>>) =>
       /\ fn.out \in 1..Len(fn.links)
       /\ \A k \in 1..Len(fn.links) :
             ~FLess(fn.links[fn.out].relevance, fn.links[k].relevance)
       /\ \A k \in 1..(fn.out - 1) :
             FLess(fn.links[k].relevance, fn.links[fn.out].relevance)
       /\ \A m \in {[k \in 1..Len(fn.links) |-> Matches(fn.links[k])]} :
          \A d \in {[k \in 1..Len(fn.links) |-> Demoted(fn.links[k])]} :
          \A x \in {[k \in 1..Len(fn.links) |->
                        Contains(normalize_text(fn.links[k].title), avoid_terms[1])]} :
          \A j, k \in 1..Len(fn.links) :
             (m[j][1] /\ m[j][2] /\ ~d[j] /\ m[k] = m[j] /\ x[k])
             => /\ FLess(fn.links[k].relevance, fn.links[j].relevance)
                /\ fn.out # k

\* a remix first, then two candidates that tie at the top: the second is
\* selected
C19_Witness ==
    /\ Selected
    /\ Len(fn.links) = 3
    /\ Contains(normalize_text(fn.links[1].title), avoid_terms[1])
    /\ Matches(fn.links[1]) = Matches(fn.links[2])
    /\ Matches(fn.links[2])[1] /\ Matches(fn.links[2])[2] /\ ~Demoted(fn.links[2])
    /\ fn.links[3].relevance = fn.links[2].relevance
    /\ fn.links[3].title # fn.links[2].title
    /\ fn.out = 2

(***************************************************************************)
(* The driver: start_job on one request, then the worker it started.       *)
(* A form field is the text the client sent: delay goes through float()    *)
(* and is a number of milliseconds, an infinity, not-a-number, or a text   *)
(* float() refuses; max_retries and concurrency go through int() and are   *)
(* a whole number or a text int() refuses.                                 *)
(***************************************************************************)
Num(n) == [kind |-> "num", n |-> n]

Refused == [kind |-> "text"]

NaN == [kind |-> "nan"]

Inf(neg) == [kind |-> "inf", neg |-> neg]

\* x < n for a float x and a number n; false for not-a-number
FloatLt(x, n) ==
    CASE x.kind = "num" -> x.n < n
      [] x.kind = "inf" -> x.neg
      [] x.kind = "nan" -> FALSE

\* x > n
FloatGt(x, n) ==
    CASE x.kind = "num" -> x.n > n
      [] x.kind = "inf" -> ~x.neg
      [] x.kind = "nan" -> FALSE

\* lines 28-37: the answers to a request without a usable file
FileStates == {"missing", "no_name", "not_csv", "bad_columns", "ok"}

DelayFields == {Num(0), Num(99), Num(100), Num(1500), Num(10000), Num(10001),
                Inf(FALSE), Inf(TRUE), NaN, Refused}

RetryFields == {Num(0), Num(1), Num(3), Num(10), Num(11), Refused}

ConcurrencyFields == {Num(0), Num(1), Num(3), Num(4), Refused}

NoJob == [status |-> "none"]

NoWorker == [started |-> FALSE]

NoBot == [constructed |-> FALSE]

InitStart ==
    /\ NoRun
    /\ \E f \in FileStates : \E d \in DelayFields : \E r \in RetryFields :
       \E c \in ConcurrencyFields : \E valid \in BOOLEAN :
          fn = [op |-> "start_job",
                file |-> f, delay |-> d, max_retries |-> r, concurrency |-> c,
                has_valid_track |-> valid,
                step |-> "request", response |-> 0,
                job |-> NoJob, worker |-> NoWorker, bot |-> NoBot]

\* lines 28-78: the status of the answer when the request is turned down
\* before a job exists, 0 when it is not
Rejection(req) ==
    IF req.file \in {"missing", "no_name", "not_csv"} THEN 400
    ELSE IF req.delay.kind = "text" THEN 500
    ELSE IF req.max_retries.kind = "text" THEN 500
    ELSE IF req.concurrency.kind = "text" THEN 500
    ELSE IF FloatLt(req.delay, 100) \/ FloatGt(req.delay, 10000) THEN 400
    ELSE IF req.max_retries.n < 1 \/ req.max_retries.n > 10 THEN 400
    ELSE IF req.concurrency.n < 1 \/ req.concurrency.n > 3 THEN 400
    ELSE IF req.file = "bad_columns" THEN 400
    ELSE 0

\* start_job turns the request down
StartRejects ==
    /\ fn.op = "start_job"
    /\ fn.step = "request"
    /\ Rejection(fn) # 0
    /\ fn' = [fn EXCEPT !.step = "answered", !.response = Rejection(fn)]
    /\ UNCHANGED runVars

\* lines 85-106: the job is stored, the worker thread started, the client
\* redirected to the progress page
StartAccepts ==
    /\ fn.op = "start_job"
    /\ fn.step = "request"
    /\ Rejection(fn) = 0
    /\ fn' = [fn EXCEPT !.step = "answered", !.response = 302,
                        !.job = [status |-> "running"],
                        !.worker = [started |-> TRUE, delay |-> fn.delay,
                                    max_retries |-> fn.max_retries.n,
                                    concurrency |-> fn.concurrency.n]]
    /\ UNCHANGED runVars

\* process_playlist, run_playlist lines 594-595: no valid track, the worker
\* records the error and ends without a bot
WorkerFails ==
    /\ fn.op = "start_job"
    /\ fn.step = "answered"
    /\ fn.worker.started
    /\ ~fn.has_valid_track
    /\ fn' = [fn EXCEPT !.step = "worked", !.job = [status |-> "error"]]
    /\ UNCHANGED runVars

\* process_playlist, run_playlist line 598: the bot of the run is constructed
\* with the arguments of the worker
WorkerConstructsBot ==
    /\ fn.op = "start_job"
    /\ fn.step = "answered"
    /\ fn.worker.started
    /\ fn.has_valid_track
    /\ fn' = [fn EXCEPT !.step = "worked",
                        !.bot = [constructed |-> TRUE, delay |-> fn.worker.delay,
                                 max_retries |-> fn.worker.max_retries,
                                 concurrency |-> fn.worker.concurrency]]
    /\ UNCHANGED runVars

NextStart == StartRejects \/ StartAccepts \/ WorkerFails \/ WorkerConstructsBot

SpecStart == InitStart /\ [][NextStart]_vars

(***************************************************************************)
(* Properties of the driver (SpecStart).                                   *)
(***************************************************************************)
DelayInRange(d) == d.kind = "num" /\ d.n >= 100 /\ d.n <= 10000

FieldInRange(f, lo, hi) == f.kind = "num" /\ f.n >= lo /\ f.n <= hi

ConfigInRange ==
    /\ DelayInRange(fn.delay)
    /\ FieldInRange(fn.max_retries, 1, 10)
    /\ FieldInRange(fn.concurrency, 1, 3)

\* C20: every run started by the driver has delay in [0.1, 10.0] seconds,
\* max_retries in [1, 10] and concurrency in [1, 3]: a request with one of
\* them out of range is answered with an error, and no job, no worker and no
\* bot exists for it.
C20_OnlyValidatedRuns ==
    fn.op = "start_job" =>
       /\ (fn.job # NoJob \/ fn.worker.started \/ fn.bot.constructed) => ConfigInRange
       /\ (fn.step # "request" /\ ~ConfigInRange) =>
             /\ fn.response \in {400, 500}
             /\ fn.job = NoJob /\ ~fn.worker.started /\ ~fn.bot.constructed
       /\ fn.bot.constructed =>
             /\ DelayInRange(fn.bot.delay)
             /\ fn.bot.max_retries \in 1..10
             /\ fn.bot.concurrency \in 1..3

(***************************************************************************)
(* Properties of the controller (SpecRetry), continued.                    *)
(***************************************************************************)
\* an exception of the wrapped call that is not a 429 rate-limit
OtherError(o) == o.kind = "exc" \/ (o.kind = "http" /\ o.status # 429)

\* the events this step appended to the trace
Appended == SubSeq(trace', Len(trace) + 1, Len(trace'))

\* this step's invocation raised an exception that is not a 429 rate-limit
RaisedOtherInStep ==
    /\ pc = "search"
    /\ Len(trace') > Len(trace)
    /\ \E k \in 1..Len(Appended) : Appended[k].ev = "call" /\ OtherError(Appended[k].out)

\* C21 (as claimed): when the wrapped call raises an exception that is not a
\* 429 rate-limit, a non-429 HTTP error included, the controller sleeps
\* delay * (attempt + 1) right after it if another attempt follows, and on
\* the final attempt it sleeps nothing and returns None.
C21_ErrorSleepAfterAnyError ==
    [][RaisedOtherInStep =>
          IF attempt < max_retries - 1
          THEN /\ Appended[Len(Appended)] = Sleep("error", delay * (attempt + 1))
               /\ Appended[Len(Appended) - 1].ev = "call"
               /\ pc' = "search" /\ attempt' = attempt + 1
          ELSE /\ Appended[Len(Appended)].ev = "call"
               /\ pc' = "returned" /\ ret' = NoUrl]_vars

\* this step's invocation took the rate-limit branch of line 547
RateLimitedInStep ==
    /\ pc = "search"
    /\ \E k \in 1..Len(Appended) : Appended[k].ev = "call" /\ IsRateLimit(Appended[k].out)

\* C24 (as claimed): for every configured delay in [0.1, 10.0] and after any
\* sequence of search calls, rate-limited ones included, the base delay of
\* the bot is at least the configured delay, and it changes only in the
\* rate-limit branch of _search_with_retries.
C24_DelayNeverDecreases ==
    /\ [](delay >= cfgDelay)
    /\ [][delay' >= delay]_vars
    /\ [][delay' # delay => RateLimitedInStep]_vars

(***************************************************************************)
(* YouTubeMusicSearcher.search on its own: the client's two result lists,  *)
(* each a sequence of results with a videoId (its length, 0 when absent),  *)
(* a title, a resultType and a category, or an exception of the client.    *)
(***************************************************************************)
accept_types ==
    <<<<"s", "o", "n", "g">>,
      <<"v", "i", "d", "e", "o">>>>

accept_categories ==
    <<<<"s", "o", "n", "g", "s">>,
      <<"m", "u", "s", "i", "c">>>>

avoid_types ==
    <<<<"p", "l", "a", "y", "l", "i", "s", "t">>,
      <<"a", "l", "b", "u", "m">>,
      <<"a", "r", "t", "i", "s", "t">>,
      <<"i", "n", "t", "e", "r", "v", "i", "e", "w">>,
      <<"d", "o", "c", "u", "m", "e", "n", "t", "a", "r", "y">>>>

avoid_in_title ==
    <<<<"i", "n", "t", "e", "r", "v", "i", "e", "w">>,
      <<"d", "o", "c", "u", "m", "e", "n", "t", "a", "r", "y">>,
      <<"b", "e", "h", "i", "n", "d", " ", "t", "h", "e", " ", "s", "c", "e", "n", "e", "s">>,
      <<"m", "a", "k", "i", "n", "g", " ", "o", "f">>>>

\* x in list
IsOneOf(text, list) == \E k \in 1..Len(list) : list[k] = text

\* any(term in text for term in list)
ContainsOneOf(text, list) == \E k \in 1..Len(list) : Contains(text, list[k])

_is_valid_music_result(item) ==
    IF item.videoId = 0 THEN FALSE
    ELSE IF \/ IsOneOf(LowerText(item.resultType), accept_types)
            \/ IsOneOf(LowerText(item.category), accept_categories)
    THEN TRUE
    ELSE IF ContainsOneOf(LowerText(item.resultType), avoid_types) THEN FALSE
    ELSE IF ContainsOneOf(LowerText(item.title), avoid_in_title) THEN FALSE
    ELSE TRUE

\* lines 113-117, 120-124: the position of the first result the loop returns
\* for, 0 when it returns for none
FirstAccepted(items) ==
    LET Accepted == {k \in 1..Len(items) : _is_valid_music_result(items[k])}
    IN  IF Accepted = {} THEN 0
        ELSE CHOOSE k \in Accepted : \A m \in Accepted : k <= m

CatalogResults ==
    {[videoId |-> 11, title |-> <<"M", "y", " ", "S", "o", "n", "g">>,
      resultType |-> <<"s", "o", "n", "g">>, category |-> <<"S", "o", "n", "g", "s">>],
     [videoId |-> 11, title |-> <<"I", "n", "t", "e", "r", "v", "i", "e", "w">>,
      resultType |-> <<"v", "i", "d", "e", "o">>, category |-> <<"V", "i", "d", "e", "o", "s">>],
     [videoId |-> 11, title |-> <<"B", "e", "s", "t", " ", "o", "f">>,
      resultType |-> <<"p", "l", "a", "y", "l", "i", "s", "t">>, category |-> <<>>],
     [videoId |-> 0, title |-> <<"M", "y", " ", "S", "o", "n", "g">>,
      resultType |-> <<"s", "o", "n", "g">>, category |-> <<"S", "o", "n", "g", "s">>],
     [videoId |-> 11, title |-> <<"M", "a", "k", "i", "n", "g", " ", "O", "f", " ", "x">>,
      resultType |-> <<"e", "p", "i", "s", "o", "d", "e">>, category |-> <<>>],
     [videoId |-> 5, title |-> <<"M", "y", " ", "S", "o", "n", "g">>,
      resultType |-> <<"e", "p", "i", "s", "o", "d", "e">>, category |-> <<>>],
     [videoId |-> 11, title |-> <<"A", "l", "b", "u", "m", " ", "m", "i", "x">>,
      resultType |-> <<"A", "l", "b", "u", "m">>, category |-> <<"m", "u", "s", "i", "c">>]}

MaxResults == 2

ResultLists == SeqsUpTo(CatalogResults, MaxResults)

InitCatalog ==
    /\ NoRun
    /\ fn = [op |-> "ytm_search", step |-> "start", songs |-> <<>>, all |-> <<>>,
             raised |-> FALSE, list |-> "none", pick |-> 0, out |-> NoUrl]

\* line 111 raises: the exception is swallowed (lines 126-127), None returned
SongsSearchRaises ==
    /\ fn.op = "ytm_search"
    /\ fn.step = "start"
    /\ fn' = [fn EXCEPT !.step = "done", !.raised = TRUE]
    /\ UNCHANGED runVars

\* lines 111-117: the search with filter="songs" and the loop over its results
SongsSearch ==
    /\ fn.op = "ytm_search"
    /\ fn.step = "start"
    /\ \E items \in ResultLists :
          LET k == FirstAccepted(items)
          IN  fn' = IF k # 0
                    THEN [fn EXCEPT !.step = "done", !.songs = items,
                                    !.list = "songs", !.pick = k,
                                    !.out = WatchUrl(items[k].videoId)]
                    ELSE [fn EXCEPT !.step = "songs", !.songs = items]
    /\ UNCHANGED runVars

\* line 119 raises
AllSearchRaises ==
    /\ fn.op = "ytm_search"
    /\ fn.step = "songs"
    /\ fn' = [fn EXCEPT !.step = "done", !.raised = TRUE]
    /\ UNCHANGED runVars

\* lines 119-124 and 129: the unfiltered search and the loop over its results
AllSearch ==
    /\ fn.op = "ytm_search"
    /\ fn.step = "songs"
    /\ \E items \in ResultLists :
          LET k == FirstAccepted(items)
          IN  fn' = IF k # 0
                    THEN [fn EXCEPT !.step = "done", !.all = items,
                                    !.list = "all", !.pick = k,
                                    !.out = WatchUrl(items[k].videoId)]
                    ELSE [fn EXCEPT !.step = "done", !.all = items]
    /\ UNCHANGED runVars

NextCatalog == SongsSearchRaises \/ SongsSearch \/ AllSearchRaises \/ AllSearch

SpecCatalog == InitCatalog /\ [][NextCatalog]_vars

(***************************************************************************)
(* Properties of the catalog search (SpecCatalog).                         *)
(***************************************************************************)
CatalogDone == fn.op = "ytm_search" /\ fn.step = "done"

\* the rule of the claim: a video identifier, a result type that is none of
\* playlist, album, artist, interview, documentary, and a title without
\* interview, documentary, behind the scenes, making of
PassesRule(item) ==
    /\ item.videoId # 0
    /\ ~ContainsOneOf(LowerText(item.resultType), avoid_types)
    /\ ~ContainsOneOf(LowerText(item.title), avoid_in_title)

FirstPassing(items) ==
    LET Passing == {k \in 1..Len(items) : PassesRule(items[k])}
    IN  IF Passing = {} THEN 0
        ELSE CHOOSE k \in Passing : \A m \in Passing : k <= m

\* C22 (as claimed): the catalog search never returns a candidate whose
\* result type is a playlist, album, artist page, interview or documentary,
\* nor one whose title contains interview, documentary, behind the scenes or
\* making of: the returned URL is built from the first candidate of the
\* songs-filtered list that has a video identifier and passes this rule,
\* else from the first such candidate of the unfiltered list, and nothing is
\* returned when neither list has one.
C22_OnlyMusicResults ==
    (CatalogDone /\ ~fn.raised) =>
       \A s \in {FirstPassing(fn.songs)} : \A a \in {FirstPassing(fn.all)} :
          /\ fn.list = "songs" =>
                /\ PassesRule(fn.songs[fn.pick])
                /\ fn.pick = s
                /\ fn.out = WatchUrl(fn.songs[s].videoId)
          /\ fn.list = "all" =>
                /\ PassesRule(fn.all[fn.pick])
                /\ s = 0 /\ fn.pick = a
                /\ fn.out = WatchUrl(fn.all[a].videoId)
          /\ fn.list = "none" => (fn.out = NoUrl /\ s = 0 /\ a = 0)

(***************************************************************************)
(* YouTubeScraper: the search of the parsed page data for a video          *)
(* identifier.  A value of the data is a dict (its entries in order, each  *)
(* a key and a value), a list (its items), a string (a text) or a number.  *)
(* "newline" is the line feed character.                                   *)
(***************************************************************************)
MaxDepth == 10

Node(t, e, s) == [t |-> t, e |-> e, s |-> s]

Dict(entries) == Node("dict", entries, <<>>)

List(elems) == Node("list", elems, <<>>)

Str(text) == Node("str", <<>>, text)

Number == Node("num", <<>>, <<>>)

Entry_(key, value) == [k |-> key, v |-> value]

\* no identifier: None
None == Node("none", <<>>, <<>>)

\* [a-zA-Z0-9_-]
IdChars == (WordChars \ {"e_acute", "E_acute"}) \cup {"-"}

\* re.match(r'^[a-zA-Z0-9_-]+$', text): one or more characters of the class
\* up to the end of the text, or up to a line feed that ends the text
MatchesIdPattern(text) ==
    /\ text # <<>>
    /\ \A k \in 1..(Len(text) - 1) : text[k] \in IdChars
    /\ text[Len(text)] \in IdChars \/ (Len(text) > 1 /\ text[Len(text)] = "newline")

_is_valid_video_id(video_id) ==
    /\ video_id.t = "str"
    /\ video_id.s # <<>>
    /\ Len(video_id.s) = VideoIdLen
    /\ MatchesIdPattern(video_id.s)

\* 'videoId' in data, data['videoId']
HasVideoId(data) == \E k \in 1..Len(data.e) : data.e[k].k = "videoId"

OwnVideoId(data) ==
    data.e[CHOOSE k \in 1..Len(data.e) : data.e[k].k = "videoId"].v

\* the values a dict or a list is looped over, in order
Children(data) ==
    IF data.t = "dict" THEN [k \in 1..Len(data.e) |-> data.e[k].v] ELSE data.e

\* the result and the number of calls made, the call itself included;
\* SearchFrom is the loop over children[k..] of lines 240-243 and 246-249
RECURSIVE _recursive_search_video_id(_, _), SearchFrom(_, _, _)
_recursive_search_video_id(data, max_depth) ==
    IF max_depth <= 0 THEN [id |-> None, calls |-> 1]
    ELSE IF data.t = "dict" /\ HasVideoId(data) /\ _is_valid_video_id(OwnVideoId(data))
    THEN [id |-> OwnVideoId(data), calls |-> 1]
    ELSE IF data.t \in {"dict", "list"}
    THEN LET r == SearchFrom(Children(data), 1, max_depth)
         IN  [id |-> r.id, calls |-> r.calls + 1]
    ELSE [id |-> None, calls |-> 1]

SearchFrom(children, k, max_depth) ==
    IF k > Len(children) THEN [id |-> None, calls |-> 0]
    ELSE LET r == _recursive_search_video_id(children[k], max_depth - 1)
         IN  IF r.id # None
             THEN r
             ELSE LET rest == SearchFrom(children, k + 1, max_depth)
                  IN  [id |-> rest.id, calls |-> r.calls + rest.calls]

\* _find_first_video_id
_find_first_video_id(yt_data) == _recursive_search_video_id(yt_data, MaxDepth)

\* the samples: identifiers
IdTexts ==
    {[k \in 1..11 |-> "a"],
     [k \in 1..11 |-> "b"],
     [k \in 1..11 |-> IF k = 6 THEN "-" ELSE "_"],
     [k \in 1..11 |-> IF k = 11 THEN "newline" ELSE "a"],
     [k \in 1..11 |-> IF k = 6 THEN " " ELSE "a"],
     <<"a", "b", "c">>}

IdValues == {Str(text) : text \in IdTexts} \cup {Number}

\* value wrapped n times, in dicts or in lists
RECURSIVE Nest(_, _, _)
Nest(n, value, wrapper) ==
    IF n = 0 THEN value
    ELSE IF wrapper = "dict" THEN Dict(<<Entry_("a", Nest(n - 1, value, wrapper))>>)
    ELSE List(<<Nest(n - 1, value, wrapper)>>)

NestDepths == {0, 1, MaxDepth - 2, MaxDepth - 1, MaxDepth}

\* the samples: a dict with two branches, each a renderer dict with a
\* videoId under some wrappers, and with or without a videoId of its own
\* behind them
PageData ==
    {Dict(<<Entry_("x", Nest(n1, Dict(<<Entry_("videoId", v1)>>), w)),
            Entry_("y", Nest(n2, Dict(<<Entry_("t", Number), Entry_("videoId", v2)>>), w))>>
          \o own) :
        n1 \in NestDepths, n2 \in {0, MaxDepth - 1}, w \in {"dict", "list"},
        v1 \in IdValues, v2 \in {Str([k \in 1..11 |-> "b"]), Str(<<"a", "b", "c">>)},
        own \in {<<>>, <<Entry_("videoId", Str([k \in 1..11 |-> "c"]))>>}}

InitScrape ==
    /\ NoRun
    /\ \E d \in PageData :
          fn = [op |-> "_find_first_video_id", data |-> d, done |-> FALSE,
                out |-> None, calls |-> 0]

FindFirstVideoId ==
    /\ fn.op = "_find_first_video_id"
    /\ ~fn.done
    /\ \E r \in {_find_first_video_id(fn.data)} :
          fn' = [fn EXCEPT !.done = TRUE, !.out = r.id, !.calls = r.calls]
    /\ UNCHANGED runVars

NextScrape == FindFirstVideoId

SpecScrape == InitScrape /\ [][NextScrape]_vars

(***************************************************************************)
(* Properties of the search of the page data (SpecScrape).                 *)
(***************************************************************************)
ScrapeDone == fn.op = "_find_first_video_id" /\ fn.done

\* a valid identifier: 11 characters, each a letter, a digit, "-" or "_"
IsVideoId(value) ==
    /\ value.t = "str"
    /\ Len(value.s) = VideoIdLen
    /\ \A k \in 1..Len(value.s) : value.s[k] \in IdChars

\* the videoId values of the dicts of the first MaxDepth levels, in
\* depth-first order: a dict's own before those below it
RECURSIVE Encountered(_, _), EncounteredFrom(_, _, _)
Encountered(data, level) ==
    IF level > MaxDepth \/ data.t \notin {"dict", "list"}
    THEN <<>>
    ELSE (IF data.t = "dict" /\ HasVideoId(data) THEN <<OwnVideoId(data)>> ELSE <<>>)
         \o EncounteredFrom(Children(data), 1, level + 1)

EncounteredFrom(children, k, level) ==
    IF k > Len(children) THEN <<>>
    ELSE Encountered(children[k], level) \o EncounteredFrom(children, k + 1, level)

\* the number of values of a structure
RECURSIVE Size(_), SizeFrom(_, _)
Size(data) == 1 + SizeFrom(Children(data), 1)

SizeFrom(children, k) ==
    IF k > Len(children) THEN 0 ELSE Size(children[k]) + SizeFrom(children, k + 1)

\* C23 (as claimed): the search of the page data is bounded at 10 levels and
\* returns the first valid video identifier in depth-first order: when a
\* valid 11-character identifier lies within the first 10 levels the first
\* of them is returned, when none does (one may lie deeper) nothing is
\* returned, and the traversal ends after at most one call per value.
C23_FirstValidWithinDepth ==
    ScrapeDone =>
       \A ids \in {SelectSeq(Encountered(fn.data, 1), IsVideoId)} :
          /\ ids # <<>> => fn.out = ids[1]
          /\ ids = <<>> => fn.out = None
          /\ fn.calls >= 1 /\ fn.calls <= Size(fn.data)

(***************************************************************************)
(* The job store: one job, its worker thread (process_playlist) and the    *)
(* requests for its status, its results page and its files, a request      *)
(* being handled in two steps (the test of the status, then the answer)    *)
(* between which the worker may run.  The progress sink and the final      *)
(* broadcasts are socketio.emit calls, which return or raise.              *)
(***************************************************************************)
MaxRequests == 2

RequestKinds == {"job_status", "results", "download"}

NoRequest == [kind |-> "none", passed |-> FALSE]

InitJob ==
    /\ NoRun
    /\ fn = [op |-> "job", status |-> "none", worker |-> "none", run |-> "pending",
             request |-> NoRequest, handled |-> 0, served |-> <<>>, changes |-> 0]

\* start_job lines 85-104: the job is stored as running, the worker started
CreateJob ==
    /\ fn.op = "job"
    /\ fn.status = "none"
    /\ fn' = [fn EXCEPT !.status = "running", !.worker = "run"]
    /\ UNCHANGED runVars

\* lines 132-136: run_playlist returns
RunReturns ==
    /\ fn.op = "job"
    /\ fn.worker = "run"
    /\ fn' = [fn EXCEPT !.worker = "returned", !.run = "returned"]
    /\ UNCHANGED runVars

\* lines 132-136 and 149: run_playlist raises
RunRaises ==
    /\ fn.op = "job"
    /\ fn.worker = "run"
    /\ fn' = [fn EXCEPT !.worker = "raised", !.run = "raised"]
    /\ UNCHANGED runVars

\* lines 139-143
SetCompleted ==
    /\ fn.op = "job"
    /\ fn.worker = "returned"
    /\ fn' = [fn EXCEPT !.status = "completed", !.worker = "emit_completed",
                        !.changes = @ + 1]
    /\ UNCHANGED runVars

\* lines 145-147: the broadcast of job_completed returns
EmitCompleted ==
    /\ fn.op = "job"
    /\ fn.worker = "emit_completed"
    /\ fn' = [fn EXCEPT !.worker = "ended"]
    /\ UNCHANGED runVars

\* lines 145-149: the broadcast of job_completed raises inside the try
EmitCompletedRaises ==
    /\ fn.op = "job"
    /\ fn.worker = "emit_completed"
    /\ fn' = [fn EXCEPT !.worker = "raised"]
    /\ UNCHANGED runVars

\* lines 149-153
SetError ==
    /\ fn.op = "job"
    /\ fn.worker = "raised"
    /\ fn' = [fn EXCEPT !.status = "error", !.worker = "emit_error", !.changes = @ + 1]
    /\ UNCHANGED runVars

\* lines 155-157: the broadcast of job_error returns, or raises and ends the
\* thread
EmitError ==
    /\ fn.op = "job"
    /\ fn.worker = "emit_error"
    /\ fn' = [fn EXCEPT !.worker = "ended"]
    /\ UNCHANGED runVars

\* a request arrives and its handler tests the job: lines 162-166, 185-190,
\* 196-201.  job_status answers at once; results and download go on only
\* when the status is completed
HandlerTests ==
    /\ fn.op = "job"
    /\ fn.status # "none"
    /\ fn.request = NoRequest
    /\ fn.handled < MaxRequests
    /\ \E kind \in RequestKinds :
          fn' = IF kind = "job_status"
                THEN [fn EXCEPT !.handled = @ + 1,
                                !.served = Append(@, [kind |-> kind, answer |-> fn.status,
                                                      at |-> fn.status])]
                ELSE IF fn.status # "completed"
                THEN [fn EXCEPT !.handled = @ + 1,
                                !.served = Append(@, [kind |-> kind, answer |-> "refused",
                                                      at |-> fn.status])]
                ELSE [fn EXCEPT !.request = [kind |-> kind, passed |-> TRUE]]
    /\ UNCHANGED runVars

\* lines 192 and 203-217: the page is rendered, the file sent
HandlerServes ==
    /\ fn.op = "job"
    /\ fn.request.passed
    /\ fn' = [fn EXCEPT !.request = NoRequest, !.handled = @ + 1,
                        !.served = Append(@, [kind |-> fn.request.kind,
                                              answer |-> "served", at |-> fn.status])]
    /\ UNCHANGED runVars

NextJob ==
    \/ CreateJob
    \/ RunReturns
    \/ RunRaises
    \/ SetCompleted
    \/ EmitCompleted
    \/ EmitCompletedRaises
    \/ SetError
    \/ EmitError
    \/ HandlerTests
    \/ HandlerServes

SpecJob == InitJob /\ [][NextJob]_vars

(***************************************************************************)
(* Properties of the job store (SpecJob).                                  *)
(***************************************************************************)
\* C26 (as claimed): a job is created with status running, changes status at
\* most once, to completed when the run of its worker returned or to error
\* when it raised, and never leaves that status; the results page and the
\* files are served only while the status is completed, however the worker
\* and the requests interleave.
C26_OneTerminalStatus ==
    /\ [][fn.status' # fn.status =>
             \/ fn.status = "none" /\ fn.status' = "running"
             \/ fn.status = "running" /\ fn.status' = "completed" /\ fn.run = "returned"
             \/ fn.status = "running" /\ fn.status' = "error" /\ fn.run = "raised"]_vars
    /\ [](/\ fn.changes <= 1
          /\ \A k \in 1..Len(fn.served) :
                fn.served[k].answer = "served" =>
                   /\ fn.served[k].kind \in {"results", "download"}
                   /\ fn.served[k].at = "completed")

====
